---------------------------- MODULE Spec2Model ----------------------------
(***************************************************************************)
(* Photo-Gallery: the client-side photo-set manager in its two variants.   *)
(*   local mode  : photo-gallery-web/app/components/PhotoApp.tsx           *)
(*                 (records kept in localStorage)                          *)
(*   server mode : unnamed/part_000 (records kept by the REST server)      *)
(* One React component each; its useState cells are the variables below,   *)
(* its handlers and effects are the actions.                               *)
(*   startup     : unnamed/part_001, the shell script that starts the      *)
(*                 server once its database answers                        *)
(***************************************************************************)
EXTENDS Integers, Sequences, FiniteSets, TLC

(***************************************************************************)
(* Bounds of the model.                                                    *)
(***************************************************************************)
\* Local mode: user operations (handler invocations, page reloads) per
\* behaviour.
MaxOps == 2
\* Server mode: user operations per behaviour, and those among them that
\* call loadPhotos, uploadFiles or deletePhoto (the others change the
\* selection).
MaxServerOps == 3
MaxRequests == 2
\* setItem calls that throw (quota exceeded) per behaviour.
MaxWriteFailures == 1
\* Records the server holds when the page is opened.
MaxServerInit == 2
\* Startup script: the times sleep 1 runs per behaviour.
MaxPolls == 12

(***************************************************************************)
(* Program constants.                                                      *)
(***************************************************************************)
MAX_STORED_IMAGES == 30

\* The divisor of formatBytes and the factor of MAX_IMAGE_BYTES.
K == 1024

\* activeId === null: identifiers are 1, 2, ...; 0 stands for null.
NoId == 0

\* error === null
Null == "<null>"

(***************************************************************************)
(* Byte sizes.  The server variant's limit is 4 * 1024^3, which is beyond  *)
(* the 32-bit integers of the checker, so a size is kept as the pair       *)
(* kib * 1024 + b with 0 <= b < 1024.                                      *)
(***************************************************************************)
Size(kib, b) == [kib |-> kib, b |-> b]

\* a > b on sizes
SizeGt(a, b) == a.kib > b.kib \/ (a.kib = b.kib /\ a.b > b.b)

\* local mode: 4 * 1024 * 1024
MAX_IMAGE_BYTES == Size(4 * K, 0)

\* server mode: 4 * 1024 * 1024 * 1024
SERVER_MAX_IMAGE_BYTES == Size(4 * K * K, 0)

\* The unit index the while loop of formatBytes stops at (at most 3, "GB").
UnitIndex(s) ==
  IF s.kib = 0 THEN 0
  ELSE IF s.kib < K THEN 1
  ELSE IF s.kib < K * K THEN 2
  ELSE 3

Units == <<"B", "KB", "MB", "GB">>

\* 1024^(i-1) for i in 1..3
KPow(i) == IF i = 1 THEN 1 ELSE IF i = 2 THEN K ELSE K * K

\* v.toFixed(1) for v = bytes / 1024^i, i >= 1, as the number of tenths:
\* floor(10 v + 1/2), computed on the pair without forming the byte count.
Tenths(s, i) == (20 * s.kib + KPow(i) + ((20 * s.b) \div K)) \div (2 * KPow(i))

formatBytes(s) ==
  LET i == UnitIndex(s)
  IN  IF i = 0
      THEN ToString(s.b) \o " " \o Units[1]
      ELSE ToString(Tenths(s, i) \div 10) \o "." \o ToString(Tenths(s, i) % 10)
           \o " " \o Units[i + 1]

(***************************************************************************)
(* Files the user can submit.  A media type "image/png" is the pair        *)
(* <<"image", "png">>; startsWith("image/") looks at its first part.       *)
(***************************************************************************)
File(name, type, size, data) ==
  [name |-> name, type |-> type, size |-> size, data |-> data]

StartsWithImage(type) == type[1] = "image"

\* local mode inputs: 1 MiB, exactly 4 MiB, 4 MiB + 1 byte, 5 MiB, and a
\* text file larger than the limit
LocalFiles ==
  { File("a.png", <<"image", "png">>, Size(K, 0), "AAAA"),
    File("b.jpg", <<"image", "jpeg">>, Size(4 * K, 0), "BBBB"),
    File("big.png", <<"image", "png">>, Size(4 * K, 1), "CCCC"),
    File("huge.gif", <<"image", "gif">>, Size(5 * K, 0), "DDDD"),
    File("notes.txt", <<"text", "plain">>, Size(8 * K, 0), "EEEE") }

\* server mode inputs: exactly 4 GiB, 4 GiB + 1 byte, and a text file
ServerFiles ==
  { File("b.jpg", <<"image", "jpeg">>, Size(4 * K * K, 0), "BBBB"),
    File("big.png", <<"image", "png">>, Size(4 * K * K, 1), "CCCC"),
    File("notes.txt", <<"text", "plain">>, Size(K, 0), "EEEE") }

\* The FileList values submitted: one file, or two different files in either
\* order.
Batches(files) ==
  { <<f>> : f \in files }
  \cup { <<p[1], p[2]>> : p \in { q \in files \X files : q[1] # q[2] } }

\* The batches the file input and the drop zone hand to addFiles and to
\* uploadFiles.
LocalBatches == Batches(LocalFiles)

ServerBatches == Batches(ServerFiles)

(***************************************************************************)
(* Sequence helpers.                                                       *)
(***************************************************************************)
\* files.filter((f) => f && f.type?.startsWith("image/"))
RECURSIVE ImageFiles(_)
ImageFiles(s) ==
  IF s = <<>> THEN <<>>
  ELSE IF StartsWithImage(Head(s).type) THEN <<Head(s)>> \o ImageFiles(Tail(s))
  ELSE ImageFiles(Tail(s))

\* A slip in the size check: only the first accepted file is measured.
TooBigFirstOnly(s, max) ==
  IF s # <<>> /\ SizeGt(s[1].size, max) THEN <<s[1]>> ELSE <<>>

\* files.find((f) => f.size > max): the files over the limit, in order
\* (find returns the first of them)
RECURSIVE TooBigFiles(_, _)
TooBigFiles(s, max) ==
  IF s = <<>> THEN <<>>
  ELSE IF SizeGt(Head(s).size, max) THEN <<Head(s)>> \o TooBigFiles(Tail(s), max)
  ELSE TooBigFiles(Tail(s), max)

\* A slip in the removal: splice(findIndex(...), 1), which with the index -1
\* of an identifier that is not there removes the last record.
WithoutIdSplice(s, id) ==
  IF \E i \in DOMAIN s : s[i].id = id
  THEN LET i == CHOOSE j \in DOMAIN s : s[j].id = id
       IN  SubSeq(s, 1, i - 1) \o SubSeq(s, i + 1, Len(s))
  ELSE SubSeq(s, 1, Len(s) - 1)

\* prev.filter((p) => p.id !== id)
RECURSIVE WithoutId(_, _)
WithoutId(s, id) ==
  IF s = <<>> THEN <<>>
  ELSE IF Head(s).id # id THEN <<Head(s)>> \o WithoutId(Tail(s), id)
  ELSE WithoutId(Tail(s), id)

\* Array.prototype.slice(0, n)
Slice0(s, n) == SubSeq(s, 1, IF Len(s) < n THEN Len(s) ELSE n)

Ids(s) == { s[i].id : i \in DOMAIN s }

(***************************************************************************)
(* JSON.  JSON.stringify turns a record into its list of key/value pairs,  *)
(* in the order of the record's fields; JSON.parse builds the record back  *)
(* from the pairs by key.                                                  *)
(***************************************************************************)
PhotoKeys == <<"id", "name", "type", "size", "createdAt", "dataUrl">>

StringifyItem(p) ==
  << <<"id", [v |-> p.id]>>, <<"name", [v |-> p.name]>>,
     <<"type", [v |-> p.type]>>, <<"size", [v |-> p.size]>>,
     <<"createdAt", [v |-> p.createdAt]>>, <<"dataUrl", [v |-> p.dataUrl]>> >>

\* JSON.stringify(photos): the text of an array
Stringify(photos) == [i \in 1..Len(photos) |-> StringifyItem(photos[i])]

\* the value of key k in an object's pairs
Member(pairs, k) == pairs[CHOOSE i \in DOMAIN pairs : pairs[i][1] = k][2].v

ParseItem(pairs) ==
  [id |-> Member(pairs, "id"), name |-> Member(pairs, "name"),
   type |-> Member(pairs, "type"), size |-> Member(pairs, "size"),
   createdAt |-> Member(pairs, "createdAt"), dataUrl |-> Member(pairs, "dataUrl")]

\* JSON.parse of the text of an array
Parse(items) == [i \in 1..Len(items) |-> ParseItem(items[i])]

(***************************************************************************)
(* The localStorage entry under STORAGE_KEY: absent, or a string that is   *)
(* empty, not JSON ("garbage"), JSON but no array ("object"), or the JSON  *)
(* text of an array.                                                       *)
(***************************************************************************)
Entry(kind, items) == [kind |-> kind, items |-> items]

Absent == Entry("absent", <<>>)

\* localStorage.setItem(STORAGE_KEY, JSON.stringify(photos)); ok = FALSE is
\* the call throwing (quota exceeded), which the caller catches and ignores
SetItem(old, photos, ok) == IF ok THEN Entry("array", Stringify(photos)) ELSE old

\* A slip in clearAll: the entry is not removed.
RemoveItemKept(old) == old

\* localStorage.removeItem(STORAGE_KEY)
RemoveItem(old) == Absent

\* The load effect, lines 54-61 of the local variant: the setPhotos calls it
\* makes (none when the entry is absent or empty, when JSON.parse throws, or
\* when the parsed value is no array).
LoadedFrom(entry) ==
  IF entry.kind \in {"absent", "empty"} THEN <<>>
  ELSE IF entry.kind = "garbage" THEN <<>>
  ELSE IF entry.kind = "array" THEN <<Parse(entry.items)>>
  ELSE <<>>

(***************************************************************************)
(* State.                                                                  *)
(***************************************************************************)
VARIABLES
  mode,      \* "local" or "server": which variant of the component runs
  photos,    \* useState<PhotoItem[]>([]), newest first
  activeId,  \* useState<id | null>(null)
  error,     \* useState<string | null>(null)
  busy,      \* server mode: useState(false)
  storage,   \* local mode: the localStorage entry under STORAGE_KEY
  strict,    \* local mode: the build runs mount effects twice (React StrictMode)
  pc,        \* local mode: the step of mounting, then "ready"
  queued,    \* local mode: setPhotos calls made by mount effects, not yet rendered
  tasks,     \* local mode: addFiles calls suspended in await readFileAsDataURL
  nextId,    \* local mode: the next value of crypto.randomUUID()
  now,       \* local mode: Date.now()
  server,    \* server mode: the records the server holds, newest first
  srvNextId, \* server mode: the next identifier the server assigns
  reqs,      \* server mode: fetch calls that have not resolved yet
  nextRid,   \* server mode: names the request of the next handler call
  ops,       \* user operations so far
  last,      \* local mode: the last step; of a removePhoto, its identifier
             \* and whether a record had it
  saveOk,    \* local mode: the last setItem call did not throw
  fails,     \* local mode: setItem calls that threw so far
  boot,      \* local mode: the photos a page reload discarded, whether the
             \* entry then held them, and the step before the reload; and
             \* the length of the entry the first page load found
  script     \* startup script: its position, the database port, and what it
             \* has done so far

vars ==
  <<mode, photos, activeId, error, busy, storage, strict, pc, queued, tasks,
    nextId, now, server, srvNextId, reqs, nextRid, ops, last, saveOk, fails,
    boot, script>>

\* What the handlers of the server variant leave alone, and what those of
\* the local variant leave alone; neither touches the startup script.
localVars ==
  <<storage, strict, pc, queued, tasks, nextId, now, saveOk, fails, boot,
    script>>
serverVars == <<busy, server, srvNextId, reqs, nextRid, script>>

\* The startup script where it does not run (the browser side).
NoScript ==
  [pc |-> "none", db |-> FALSE, polls |-> 0, seenUp |-> FALSE,
   migrateRuns |-> 0, migrated |-> FALSE, started |-> FALSE, status |-> 0]

Last(op, id, hit) == [op |-> op, id |-> id, hit |-> hit]

\* The save effect, lines 65-71 of the local variant, on the entry old with
\* the photos of the render: setItem succeeds or throws, and a throw is
\* caught and ignored.
SaveEffect(old, new) ==
  \E ok \in BOOLEAN :
    /\ ok \/ fails < MaxWriteFailures
    /\ storage' = SetItem(old, new, ok)
    /\ saveOk' = ok
    /\ fails' = IF ok THEN fails ELSE fails + 1

(***************************************************************************)
(* Local mode: photo-gallery-web/app/components/PhotoApp.tsx               *)
(***************************************************************************)
\* A record as an earlier session stored it; the j-th of an entry, newest
\* first.
StoredPhoto(j) ==
  [id |-> j, name |-> "old.png", type |-> <<"image", "png">>, size |-> Size(K, 0),
   createdAt |-> MAX_STORED_IMAGES + 1 - j,
   dataUrl |-> [mime |-> <<"image", "png">>, base64 |-> "OOOO"]]

StoredPhotos(n) == [j \in 1..n |-> StoredPhoto(j)]

\* The entries the page may find: none, unusable ones, and arrays of 0, 1,
\* MAX - 1, MAX and MAX + 1 records (the last written by something other
\* than this program: the load effect does not validate what it reads).
InitEntries ==
  { Absent, Entry("empty", <<>>), Entry("garbage", <<>>), Entry("object", <<>>) }
  \cup { Entry("array", Stringify(StoredPhotos(n))) :
           n \in {0, 1, MAX_STORED_IMAGES - 1, MAX_STORED_IMAGES,
                  MAX_STORED_IMAGES + 1} }

\* Identifiers of new records: above those of every stored record.
FirstFreshId == MAX_STORED_IMAGES + 2

\* Before the first reload: only the length of the entry the page found.
NoBoot(entry) ==
  [valid |-> FALSE, synced |-> FALSE, lastOp |-> "none", prev |-> <<>>,
   origin |-> Len(entry.items)]

LocalInit ==
  /\ mode = "local"
  /\ photos = <<>>
  /\ activeId = NoId
  /\ error = Null
  /\ busy = FALSE
  /\ storage \in InitEntries
  /\ strict \in BOOLEAN
  /\ pc = "load"
  /\ queued = <<>>
  /\ tasks = <<>>
  /\ nextId = FirstFreshId
  /\ now = FirstFreshId
  /\ server = <<>>
  /\ srvNextId = 1
  /\ reqs = {}
  /\ nextRid = 1
  /\ ops = 0
  /\ last = Last("none", NoId, FALSE)
  /\ saveOk = FALSE
  /\ fails = 0
  /\ boot = NoBoot(storage)
  /\ script = NoScript

\* useEffect(() => { ... setPhotos(parsed) ... }, []) at mount
LoadEffect ==
  /\ mode = "local"
  /\ pc \in {"load", "load2"}
  /\ queued' = queued \o LoadedFrom(storage)
  /\ pc' = IF pc = "load" THEN "save" ELSE "save2"
  /\ UNCHANGED <<mode, photos, activeId, error, storage, strict, tasks, nextId,
                 now, ops, last, saveOk, fails, boot>>
  /\ UNCHANGED serverVars

\* useEffect(() => { localStorage.setItem(...) }, [photos]) at mount: it runs
\* with the photos of the first render, before any queued setPhotos applies.
\* Under StrictMode both mount effects then run a second time.
SaveEffectAtMount ==
  /\ mode = "local"
  /\ pc \in {"save", "save2"}
  /\ SaveEffect(storage, photos)
  /\ pc' = IF pc = "save" /\ strict THEN "load2" ELSE "commit"
  /\ UNCHANGED <<mode, photos, activeId, error, strict, queued, tasks, nextId,
                 now, ops, last, boot>>
  /\ UNCHANGED serverVars

\* The render after the mount effects: the queued setPhotos calls apply in
\* order (the last one wins), and as photos changed the save effect runs.
MountCommit ==
  /\ mode = "local"
  /\ pc = "commit"
  /\ pc' = "ready"
  /\ queued' = <<>>
  /\ IF queued = <<>>
     THEN UNCHANGED <<photos, storage, saveOk, fails>>
     ELSE /\ photos' = queued[Len(queued)]
          /\ SaveEffect(storage, photos')
  /\ last' = Last("mount", NoId, FALSE)
  /\ UNCHANGED <<mode, activeId, error, strict, tasks, nextId, now, ops, boot>>
  /\ UNCHANGED serverVars

\* The messages of setError.
SelectImageMsg == "Please select an image file (JPG/PNG/WebP/GIF)."

TooLargeMsg(f) ==
  "One file is too large (" \o f.name \o ", " \o formatBytes(f.size)
  \o "). Max " \o formatBytes(MAX_IMAGE_BYTES) \o "."

\* readFileAsDataURL(f): "data:<type>;base64,<content>"
DataUrl(f) == [mime |-> f.type, base64 |-> f.data]

\* The record addFiles builds from a file once it is read.
NewPhoto(f, id, time) ==
  [id |-> id, name |-> f.name, type |-> f.type, size |-> f.size,
   createdAt |-> time, dataUrl |-> DataUrl(f)]

\* A slip in the merge: slice(-MAX_STORED_IMAGES) keeps the tail, so the
\* newest records are the ones dropped.
AddMergeKeepTail(next, prev) ==
  SubSeq(next \o prev,
         IF Len(next) + Len(prev) > MAX_STORED_IMAGES
         THEN Len(next) + Len(prev) - MAX_STORED_IMAGES + 1 ELSE 1,
         Len(next) + Len(prev))

\* A slip in the merge: no slice, the sequence is never cut.
AddMergeNoCap(next, prev) == next \o prev

\* setPhotos((prev) => [...next, ...prev].slice(0, MAX_STORED_IMAGES))
AddMerge(next, prev) == Slice0(next \o prev, MAX_STORED_IMAGES)

\* A slip in addFiles: the first new record is selected whatever the size of
\* the batch.
ActiveAfterAddAlways(next, active) == next[1].id

\* if (next.length === 1) setActiveId(next[0].id)
ActiveAfterAdd(next, active) == IF Len(next) = 1 THEN next[1].id ELSE active

\* if (activeId === id) setActiveId(null)
ActiveAfterRemove(active, id) == IF active = id THEN NoId ELSE active

\* Positions of the records an operation is tried on: the first (newest) and
\* the last (oldest) of the sequence.
Probes(s) == {1, Len(s)} \cap DOMAIN s

ProbeIds(s) == { s[i].id : i \in Probes(s) }

\* addFiles up to its first await: validation, all or nothing.
AddFiles(batch) ==
  /\ mode = "local"
  /\ pc = "ready"
  /\ ops < MaxOps
  /\ LET files == ImageFiles(batch)
         tooBig == TooBigFiles(files, MAX_IMAGE_BYTES)
     IN  IF files = <<>>
         THEN error' = SelectImageMsg /\ tasks' = tasks
         ELSE IF tooBig # <<>>
         THEN error' = TooLargeMsg(tooBig[1]) /\ tasks' = tasks
         ELSE /\ error' = Null
              /\ tasks' = Append(tasks, [files |-> files, next |-> <<>>])
  /\ ops' = ops + 1
  /\ last' = Last("add", NoId, FALSE)
  /\ UNCHANGED <<mode, photos, activeId, storage, strict, pc, queued, nextId,
                 now, saveOk, fails, boot>>
  /\ UNCHANGED serverVars

\* The sequence without its i-th element.
Drop(s, i) == SubSeq(s, 1, i - 1) \o SubSeq(s, i + 1, Len(s))

\* A slip in addFiles: setPhotos inside the loop, so each record enters the
\* sequence as soon as its file is read.
PhotosAfterReadEager(next, prev, done) == AddMerge(<<next[Len(next)]>>, prev)

\* photos once a file of the batch is read: setPhotos is called after the
\* loop, with all of next, and takes the sequence as it then is.
PhotosAfterRead(next, prev, done) == IF done THEN AddMerge(next, prev) ELSE prev

\* One await readFileAsDataURL(f) of the i-th suspended addFiles resolves and
\* the record is pushed on next.  After the last file the call runs to its
\* end: the merge into photos, the selection, and (photos changed) the save
\* effect.
ReadDone(i) ==
  /\ mode = "local"
  /\ pc = "ready"
  /\ i \in DOMAIN tasks
  /\ LET t == tasks[i]
         f == t.files[Len(t.next) + 1]
         next == Append(t.next, NewPhoto(f, nextId, now))
     IN  IF Len(next) < Len(t.files)
         THEN /\ tasks' = [tasks EXCEPT ![i].next = next]
              /\ photos' = PhotosAfterRead(next, photos, FALSE)
              /\ UNCHANGED <<activeId, storage, saveOk, fails>>
         ELSE /\ tasks' = Drop(tasks, i)
              /\ photos' = PhotosAfterRead(next, photos, TRUE)
              /\ activeId' = ActiveAfterAdd(next, activeId)
              /\ SaveEffect(storage, photos')
  /\ nextId' = nextId + 1
  /\ now' = now + 1
  /\ last' = Last("read", NoId, FALSE)
  /\ UNCHANGED <<mode, error, strict, pc, queued, ops, boot>>
  /\ UNCHANGED serverVars

\* reader.onerror: the awaited promise rejects and addFiles ends there, with
\* no handler for the rejection.
ReadError(i) ==
  /\ mode = "local"
  /\ pc = "ready"
  /\ i \in DOMAIN tasks
  /\ tasks' = Drop(tasks, i)
  /\ last' = Last("readError", NoId, FALSE)
  /\ UNCHANGED <<mode, photos, activeId, error, storage, strict, pc, queued,
                 nextId, now, ops, saveOk, fails, boot>>
  /\ UNCHANGED serverVars

\* removePhoto(id); filter returns a new array, so the save effect runs.
RemovePhoto(id) ==
  /\ mode = "local"
  /\ pc = "ready"
  /\ ops < MaxOps
  /\ photos' = WithoutId(photos, id)
  /\ activeId' = ActiveAfterRemove(activeId, id)
  /\ SaveEffect(storage, photos')
  /\ ops' = ops + 1
  /\ last' = Last("remove", id, id \in Ids(photos))
  /\ UNCHANGED <<mode, error, strict, pc, queued, tasks, nextId, now, boot>>
  /\ UNCHANGED serverVars

\* The identifiers removePhoto is called with: those of records on show, and
\* once more the one just removed.
RemoveTargets ==
  ProbeIds(photos) \cup (IF last.op = "remove" THEN {last.id} ELSE {})

\* clearAll (its button is disabled while photos is empty), then the save
\* effect of the render that follows.
ClearAll ==
  /\ mode = "local"
  /\ pc = "ready"
  /\ ops < MaxOps
  /\ Len(photos) # 0
  /\ photos' = <<>>
  /\ activeId' = NoId
  /\ SaveEffect(RemoveItem(storage), photos')
  /\ ops' = ops + 1
  /\ last' = Last("clear", NoId, FALSE)
  /\ UNCHANGED <<mode, error, strict, pc, queued, tasks, nextId, now, boot>>
  /\ UNCHANGED serverVars

OpsBound == IF mode = "local" THEN MaxOps ELSE MaxServerOps

\* onClick={() => setActiveId(p.id)} of a record on show
SetActive(id) ==
  /\ pc = "ready"
  /\ ops < OpsBound
  /\ id \in Ids(photos)
  /\ activeId' = id
  /\ ops' = ops + 1
  /\ last' = IF mode = "local" THEN Last("setActive", NoId, FALSE) ELSE last
  /\ UNCHANGED <<mode, photos, error, busy, server, srvNextId, reqs, nextRid>>
  /\ UNCHANGED localVars

\* onClick={() => setActiveId(null)} of the modal, shown while activePhoto is
\* not null
Dismiss ==
  /\ pc = "ready"
  /\ ops < OpsBound
  /\ activeId \in Ids(photos)
  /\ activeId' = NoId
  /\ ops' = ops + 1
  /\ last' = IF mode = "local" THEN Last("dismiss", NoId, FALSE) ELSE last
  /\ UNCHANGED <<mode, photos, error, busy, server, srvNextId, reqs, nextRid>>
  /\ UNCHANGED localVars

\* The user reloads the page: the component is constructed anew and mounts;
\* only localStorage survives.  Suspended addFiles calls are gone.
PageReload ==
  /\ mode = "local"
  /\ pc = "ready"
  /\ ops < MaxOps
  /\ photos' = <<>>
  /\ activeId' = NoId
  /\ error' = Null
  /\ tasks' = <<>>
  /\ queued' = <<>>
  /\ pc' = "load"
  /\ ops' = ops + 1
  /\ boot' = [valid |-> TRUE, synced |-> saveOk, lastOp |-> last.op,
              prev |-> photos, origin |-> boot.origin]
  /\ last' = Last("reload", NoId, FALSE)
  /\ UNCHANGED <<mode, storage, strict, nextId, now, saveOk, fails>>
  /\ UNCHANGED serverVars

LocalNext ==
  \/ LoadEffect
  \/ SaveEffectAtMount
  \/ MountCommit
  \/ \E batch \in LocalBatches : AddFiles(batch)
  \/ \E i \in DOMAIN tasks : ReadDone(i)
  \/ \E i \in DOMAIN tasks : ReadError(i)
  \/ \E id \in RemoveTargets : RemovePhoto(id)
  \/ ClearAll
  \/ \E id \in ProbeIds(photos) : SetActive(id)
  \/ Dismiss
  \/ PageReload

LocalSpec == LocalInit /\ [][LocalNext]_vars

(***************************************************************************)
(* Server mode: unnamed/part_000.  The server and the network are not part *)
(* of the repository's sources; they follow section 6 of the specification.*)
(***************************************************************************)
\* A record of GET /api/photos/: created_at, image_url and thumb_url are the
\* server's and follow from the identifier.
ServerPhoto(id, name) == [id |-> id, name |-> name]

ServerPhotos(n) == [j \in 1..n |-> ServerPhoto(n + 1 - j, "old.png")]

\* A slip in the status check: every response counts as a success (fetch
\* rejects only when there is no response).
OkAnyResponse(status) == status # 0

\* res.ok
Ok(status) == status >= 200 /\ status <= 299

\* The status of a fetch that rejects (no response).
NetworkError == 0

Request(rid, kind, files, id, active, chained) ==
  [rid |-> rid, kind |-> kind, phase |-> "sent", files |-> files, id |-> id,
   active |-> active, chained |-> chained, status |-> NetworkError,
   data |-> <<>>]

ServerInit ==
  /\ mode = "server"
  /\ photos = <<>>
  /\ activeId = NoId
  /\ error = Null
  /\ busy = FALSE
  /\ storage = Absent
  /\ strict = FALSE
  /\ pc = "ready"
  /\ queued = <<>>
  /\ tasks = <<>>
  /\ nextId = FirstFreshId
  /\ now = FirstFreshId
  /\ \E n \in 0..MaxServerInit :
       /\ server = ServerPhotos(n)
       /\ srvNextId = n + 1
  /\ reqs = { Request(0, "list", <<>>, NoId, NoId, FALSE) }
  /\ nextRid = 1
  /\ ops = 0
  /\ last = Last("mount", NoId, FALSE)
  /\ saveOk = FALSE
  /\ fails = 0
  /\ boot = NoBoot(Absent)
  /\ script = NoScript

\* The records the server creates for the files of one POST, newest first.
RECURSIVE Created(_, _)
Created(names, firstId) ==
  IF names = <<>> THEN <<>>
  ELSE Created(Tail(names), firstId + 1) \o <<ServerPhoto(firstId, Head(names))>>

\* The server answers a request: it serves it, refuses it (500, or 404 for a
\* DELETE of a record it does not hold), or the fetch fails without a
\* response, the request never having reached the server.
ServerAnswers(r) ==
  /\ mode = "server"
  /\ r \in reqs
  /\ r.phase = "sent"
  /\ \/ /\ r.kind = "list"
        /\ reqs' = (reqs \ {r})
                     \cup {[r EXCEPT !.phase = "done", !.status = 200, !.data = server]}
        /\ UNCHANGED <<server, srvNextId>>
     \/ /\ r.kind = "upload"
        /\ server' = Created(r.files, srvNextId) \o server
        /\ srvNextId' = srvNextId + Len(r.files)
        /\ reqs' = (reqs \ {r}) \cup {[r EXCEPT !.phase = "done", !.status = 201]}
     \/ /\ r.kind = "delete"
        /\ r.id \in Ids(server)
        /\ server' = WithoutId(server, r.id)
        /\ \E st \in {200, 204} :
             reqs' = (reqs \ {r}) \cup {[r EXCEPT !.phase = "done", !.status = st]}
        /\ UNCHANGED srvNextId
     \/ /\ r.kind = "delete"
        /\ r.id \notin Ids(server)
        /\ reqs' = (reqs \ {r}) \cup {[r EXCEPT !.phase = "done", !.status = 404]}
        /\ UNCHANGED <<server, srvNextId>>
     \/ /\ \E st \in {500, NetworkError} :
             reqs' = (reqs \ {r}) \cup {[r EXCEPT !.phase = "done", !.status = st]}
        /\ UNCHANGED <<server, srvNextId>>
  /\ UNCHANGED <<mode, photos, activeId, error, busy, nextRid, ops, last>>
  /\ UNCHANGED localVars

\* The messages of setError.
FetchFailedMsg == "Failed to fetch"

LoadFailedMsg(status) == "Failed to load (" \o ToString(status) \o ")"

\* The body of a response that is not a success.
ErrorBody == "server error"

UploadFailedMsg(status, body) ==
  "Upload failed (" \o ToString(status) \o "): " \o body

DeleteFailedMsg(status) == "Delete failed (" \o ToString(status) \o ")"

FileTooLargeMsg(f) ==
  "File too large: " \o f.name \o " (" \o formatBytes(f.size) \o "). Max "
  \o formatBytes(SERVER_MAX_IMAGE_BYTES) \o "."

\* loadPhotos up to its await: the Refresh button (disabled while busy)
LoadPhotos ==
  /\ mode = "server"
  /\ ops < MaxServerOps
  /\ nextRid <= MaxRequests
  /\ ~busy
  /\ error' = Null
  /\ reqs' = reqs \cup { Request(nextRid, "list", <<>>, NoId, NoId, FALSE) }
  /\ nextRid' = nextRid + 1
  /\ ops' = ops + 1
  /\ last' = last
  /\ UNCHANGED <<mode, photos, activeId, busy, server, srvNextId>>
  /\ UNCHANGED localVars

\* A slip in loadPhotos: the catch block also empties the sequence.
PhotosAfterListCleared(prev, status, data) == IF Ok(status) THEN data ELSE <<>>

\* A slip in loadPhotos: the fetched records are merged into the sequence
\* instead of replacing it.
PhotosAfterListMerged(prev, status, data) ==
  IF Ok(status)
  THEN data \o SelectSeq(prev, LAMBDA p : p.id \notin Ids(data))
  ELSE prev

\* if (!res.ok) throw ...; setPhotos(data)
PhotosAfterList(prev, status, data) == IF Ok(status) THEN data ELSE prev

\* loadPhotos after its await.  When uploadFiles awaits this call
\* (r.chained), uploadFiles then runs to its end: finally setBusy(false).
ListResponse(r) ==
  /\ mode = "server"
  /\ r \in reqs
  /\ r.kind = "list"
  /\ r.phase = "done"
  /\ photos' = PhotosAfterList(photos, r.status, r.data)
  /\ error' = IF Ok(r.status) THEN error
              ELSE IF r.status = NetworkError THEN FetchFailedMsg
              ELSE LoadFailedMsg(r.status)
  /\ busy' = IF r.chained THEN FALSE ELSE busy
  /\ reqs' = reqs \ {r}
  /\ last' = last
  /\ UNCHANGED <<mode, activeId, server, srvNextId, nextRid, ops>>
  /\ UNCHANGED localVars

RECURSIVE Names(_)
Names(files) ==
  IF files = <<>> THEN <<>> ELSE <<Head(files).name>> \o Names(Tail(files))

\* uploadFiles up to its await (the drop zone calls it whether busy or not)
UploadFiles(batch) ==
  /\ mode = "server"
  /\ ops < MaxServerOps
  /\ nextRid <= MaxRequests
  /\ LET files == ImageFiles(batch)
         tooBig == TooBigFiles(files, SERVER_MAX_IMAGE_BYTES)
     IN  IF files = <<>>
         THEN /\ error' = SelectImageMsg
              /\ UNCHANGED <<busy, reqs>>
         ELSE IF tooBig # <<>>
         THEN /\ error' = FileTooLargeMsg(tooBig[1])
              /\ UNCHANGED <<busy, reqs>>
         ELSE /\ error' = Null
              /\ busy' = TRUE
              /\ reqs' = reqs \cup
                   { Request(nextRid, "upload", Names(files), NoId, NoId, FALSE) }
  /\ nextRid' = nextRid + 1
  /\ ops' = ops + 1
  /\ last' = last
  /\ UNCHANGED <<mode, photos, activeId, server, srvNextId>>
  /\ UNCHANGED localVars

\* A slip in uploadFiles: setBusy(false) at the end of the try block instead
\* of in finally, so a failed upload never releases busy.
BusyAfterUploadNoFinally(current, status) == current

\* busy once the upload's response is handled: a failure goes through catch
\* to finally { setBusy(false) }; a success awaits loadPhotos first.
BusyAfterUpload(current, status) == IF Ok(status) THEN current ELSE FALSE

\* uploadFiles after its await: on success it calls loadPhotos and awaits it;
\* otherwise catch and finally.
UploadResponse(r) ==
  /\ mode = "server"
  /\ r \in reqs
  /\ r.kind = "upload"
  /\ r.phase = "done"
  /\ IF Ok(r.status)
     THEN /\ error' = Null
          /\ reqs' = (reqs \ {r})
                       \cup { Request(r.rid, "list", <<>>, NoId, NoId, TRUE) }
     ELSE /\ error' = IF r.status = NetworkError THEN FetchFailedMsg
                      ELSE UploadFailedMsg(r.status, ErrorBody)
          /\ reqs' = reqs \ {r}
  /\ busy' = BusyAfterUpload(busy, r.status)
  /\ last' = last
  /\ UNCHANGED <<mode, photos, activeId, server, srvNextId, nextRid, ops>>
  /\ UNCHANGED localVars

\* deletePhoto(id) up to its await; activeId is the one of the render the
\* handler was made in, and stays that for the rest of the call.
DeletePhoto(id) ==
  /\ mode = "server"
  /\ ops < MaxServerOps
  /\ nextRid <= MaxRequests
  /\ id \in Ids(photos)
  /\ error' = Null
  /\ busy' = TRUE
  /\ reqs' = reqs \cup { Request(nextRid, "delete", <<>>, id, activeId, FALSE) }
  /\ nextRid' = nextRid + 1
  /\ ops' = ops + 1
  /\ last' = last
  /\ UNCHANGED <<mode, photos, activeId, server, srvNextId>>
  /\ UNCHANGED localVars

\* if (activeId === id) setActiveId(null), activeId being the value deletePhoto
\* was called with
ActiveAfterDelete(current, captured, id) ==
  IF captured = id THEN NoId ELSE current

\* The optimistic delete (the lines the source keeps commented out): the
\* record is filtered out whatever the response.
PhotosAfterDeleteOptimistic(prev, status, id) == WithoutId(prev, id)

\* if (!res.ok && res.status !== 204) throw ...;
\* setPhotos((prev) => prev.filter((p) => p.id !== id))
PhotosAfterDelete(prev, status, id) ==
  IF Ok(status) \/ status = 204 THEN WithoutId(prev, id) ELSE prev

\* deletePhoto after its await
DeleteResponse(r) ==
  /\ mode = "server"
  /\ r \in reqs
  /\ r.kind = "delete"
  /\ r.phase = "done"
  /\ photos' = PhotosAfterDelete(photos, r.status, r.id)
  /\ IF Ok(r.status) \/ r.status = 204
     THEN /\ activeId' = ActiveAfterDelete(activeId, r.active, r.id)
          /\ error' = error
     ELSE /\ error' = IF r.status = NetworkError THEN FetchFailedMsg
                      ELSE DeleteFailedMsg(r.status)
          /\ activeId' = activeId
  /\ busy' = FALSE
  /\ reqs' = reqs \ {r}
  /\ last' = last
  /\ UNCHANGED <<mode, server, srvNextId, nextRid, ops>>
  /\ UNCHANGED localVars

ServerNext ==
  \/ \E r \in reqs : ServerAnswers(r)
  \/ LoadPhotos
  \/ \E r \in reqs : ListResponse(r)
  \/ \E batch \in ServerBatches : UploadFiles(batch)
  \/ \E r \in reqs : UploadResponse(r)
  \/ \E id \in ProbeIds(photos) : DeletePhoto(id)
  \/ \E r \in reqs : DeleteResponse(r)
  \/ \E id \in ProbeIds(photos) : SetActive(id)
  \/ Dismiss

ServerSpec == ServerInit /\ [][ServerNext]_vars

\* Every request resolves (fetch settles its promise: a response or a
\* rejection), and the continuation of an await whose promise has settled
\* runs: the event loop takes its microtasks.
ServerFairness ==
  /\ WF_vars(\E r \in reqs : ServerAnswers(r))
  /\ WF_vars(\E r \in reqs : ListResponse(r))
  /\ WF_vars(\E r \in reqs : UploadResponse(r))
  /\ WF_vars(\E r \in reqs : DeleteResponse(r))

ServerLiveSpec == ServerSpec /\ ServerFairness

(***************************************************************************)
(* The startup script, unnamed/part_001 (sh, set -e).  nc, sleep and       *)
(* manage.py are programs it calls: nc -z succeeds when the database port  *)
(* accepts a connection, migrate succeeds or fails, runserver serves until *)
(* it exits.                                                               *)
(***************************************************************************)
\* The database port starts or stops accepting connections.
DbChanges ==
  /\ mode = "script"
  /\ script.pc # "exited"
  /\ script' = [script EXCEPT !.db = ~script.db]
  /\ UNCHANGED <<mode, photos, activeId, error, busy, storage, strict, pc,
                 queued, tasks, nextId, now, server, srvNextId, reqs, nextRid,
                 ops, last, saveOk, fails, boot>>

ScriptInit ==
  /\ mode = "script"
  /\ photos = <<>>
  /\ activeId = NoId
  /\ error = Null
  /\ busy = FALSE
  /\ storage = Absent
  /\ strict = FALSE
  /\ pc = "ready"
  /\ queued = <<>>
  /\ tasks = <<>>
  /\ nextId = FirstFreshId
  /\ now = FirstFreshId
  /\ server = <<>>
  /\ srvNextId = 1
  /\ reqs = {}
  /\ nextRid = 1
  /\ ops = 0
  /\ last = Last("none", NoId, FALSE)
  /\ saveOk = FALSE
  /\ fails = 0
  /\ boot = NoBoot(Absent)
  /\ \E up \in BOOLEAN : script = [NoScript EXCEPT !.pc = "echoWait", !.db = up]

\* A step of the script: only script changes.
ScriptStep(next) ==
  /\ mode = "script"
  /\ script' = next
  /\ UNCHANGED <<mode, photos, activeId, error, busy, storage, strict, pc,
                 queued, tasks, nextId, now, server, srvNextId, reqs, nextRid,
                 ops, last, saveOk, fails, boot>>

\* echo "Waiting for PostgreSQL at ..."
ScriptEchoWait ==
  /\ script.pc = "echoWait"
  /\ ScriptStep([script EXCEPT !.pc = "probe"])

\* until nc -z ...; do ... done: the loop ends when nc succeeds
AfterProbe(reachable) == IF reachable THEN "echoUp" ELSE "sleep"

\* nc -z "$DB_HOST" "$DB_PORT" as the condition of until (a failing
\* condition does not trip set -e)
ScriptProbe ==
  /\ script.pc = "probe"
  /\ ScriptStep([script EXCEPT !.pc = AfterProbe(script.db),
                               !.seenUp = script.seenUp \/ script.db])

\* sleep 1, then the condition again
ScriptSleep ==
  /\ script.pc = "sleep"
  /\ script.polls < MaxPolls
  /\ ScriptStep([script EXCEPT !.pc = "probe", !.polls = script.polls + 1])

\* echo "PostgreSQL is up!"
ScriptEchoUp ==
  /\ script.pc = "echoUp"
  /\ ScriptStep([script EXCEPT !.pc = "migrate"])

\* The script without set -e: a failed command is followed by the next one.
AfterMigrateNoErrexit(ok) == "runserver"

\* set -e: a command that fails ends the script there
AfterMigrate(ok) == IF ok THEN "runserver" ELSE "exited"

\* python manage.py migrate
ScriptMigrate ==
  /\ script.pc = "migrate"
  /\ \E ok \in BOOLEAN :
       ScriptStep([script EXCEPT !.pc = AfterMigrate(ok),
                                 !.migrateRuns = script.migrateRuns + 1,
                                 !.migrated = ok,
                                 !.status = IF ok THEN 0 ELSE 1])

\* python manage.py runserver 0.0.0.0:8000
ScriptRunServer ==
  /\ script.pc = "runserver"
  /\ ScriptStep([script EXCEPT !.pc = "serving", !.started = TRUE])

\* runserver exits; its status is the script's
ScriptServerExits ==
  /\ script.pc = "serving"
  /\ \E st \in {0, 1} :
       ScriptStep([script EXCEPT !.pc = "exited", !.status = st])

ScriptNext ==
  \/ DbChanges
  \/ ScriptEchoWait
  \/ ScriptProbe
  \/ ScriptSleep
  \/ ScriptEchoUp
  \/ ScriptMigrate
  \/ ScriptRunServer
  \/ ScriptServerExits

ScriptSpec == ScriptInit /\ [][ScriptNext]_vars

Init == LocalInit \/ ServerInit \/ ScriptInit

Next == LocalNext \/ ServerNext \/ ScriptNext

Spec == Init /\ [][Next]_vars

(***************************************************************************)
(* Properties.                                                             *)
(***************************************************************************)
Min(a, b) == IF a < b THEN a ELSE b

\* The step in which the i-th suspended addFiles reads its last file and
\* returns.
AddCompletes(i) == ReadDone(i) /\ Len(tasks[i].next) + 1 = Len(tasks[i].files)

\* C1: local mode, an Add of k accepted files on a sequence of length n
\* leaves min(n + k, 30) records: first the new records, in the order the
\* files were submitted, each with a fresh identifier and its file's name,
\* type, size and content, then the previous records in their order; only
\* the tail is dropped.
C1_AddPrependsAndCaps ==
  [][\A i \in DOMAIN tasks :
       AddCompletes(i) =>
         LET fs == tasks[i].files
             k == Len(fs)
             n == Len(photos)
             m == Min(n + k, MAX_STORED_IMAGES)
         IN  /\ Len(photos') = m
             /\ \A j \in 1..Min(k, m) :
                  /\ photos'[j].name = fs[j].name
                  /\ photos'[j].type = fs[j].type
                  /\ photos'[j].size = fs[j].size
                  /\ photos'[j].dataUrl.base64 = fs[j].data
                  /\ photos'[j].id \notin Ids(photos)
             /\ \A j \in (k + 1)..m : photos'[j] = photos[j - k]]_vars

\* C1's case: the sequence held 30 records (the entry, whose rewrite failed,
\* still shows them), one file was added, and the new record leads 29 of
\* them, the oldest being gone.
C1_Witness ==
  /\ mode = "local"
  /\ Len(photos) = MAX_STORED_IMAGES
  /\ photos[1].id >= FirstFreshId
  /\ photos[2].id = 1
  /\ MAX_STORED_IMAGES \notin Ids(photos)
  /\ ~saveOk
  /\ storage.kind = "array"
  /\ Len(storage.items) = MAX_STORED_IMAGES
  /\ Member(storage.items[MAX_STORED_IMAGES], "id") = MAX_STORED_IMAGES

\* C2 as written: local mode, the sequence never holds more than 30 records,
\* whatever entry Initialize found.
C2_AtMostMax == mode = "local" => Len(photos) <= MAX_STORED_IMAGES

\* C2, amended: local mode, when the entry the page first found holds at
\* most 30 records, the sequence never holds more than 30 records.
C2_AtMostMaxFromCappedEntry ==
  (mode = "local" /\ boot.origin <= MAX_STORED_IMAGES)
    => Len(photos) <= MAX_STORED_IMAGES

\* C2's case: an Add on a sequence loaded at the cap: 30 records, a new one
\* first.
C2_Witness ==
  /\ mode = "local"
  /\ boot.origin = MAX_STORED_IMAGES
  /\ Len(photos) = MAX_STORED_IMAGES
  /\ photos[1].id >= FirstFreshId

\* A batch fails validation: no file of it has an image type, or an
\* image-typed file of it is larger than max.
Invalid(batch, max) ==
  \/ \A i \in DOMAIN batch : batch[i].type[1] # "image"
  \/ \E i \in DOMAIN batch :
       batch[i].type[1] = "image" /\ SizeGt(batch[i].size, max)

Oversize(batch, max) ==
  { batch[i] : i \in { j \in DOMAIN batch :
      batch[j].type[1] = "image" /\ SizeGt(batch[j].size, max) } }

InvalidLocalBatches == { b \in LocalBatches : Invalid(b, MAX_IMAGE_BYTES) }

InvalidServerBatches ==
  { b \in ServerBatches : Invalid(b, SERVER_MAX_IMAGE_BYTES) }

\* C3: an Add whose batch fails validation changes neither the sequence nor
\* the selection, reads no file, sends no request, and sets the error: the
\* size-limit message names an oversize file of the batch and its size.
C3_InvalidBatchNoEffect ==
  [][/\ \A b \in InvalidLocalBatches :
          AddFiles(b) =>
            /\ photos' = photos
            /\ activeId' = activeId
            /\ tasks' = tasks
            /\ nextId' = nextId
            /\ storage' = storage
            /\ IF Oversize(b, MAX_IMAGE_BYTES) = {}
               THEN error' = "Please select an image file (JPG/PNG/WebP/GIF)."
               ELSE \E f \in Oversize(b, MAX_IMAGE_BYTES) :
                      error' = "One file is too large (" \o f.name \o ", "
                               \o formatBytes(f.size) \o "). Max 4.0 MB."
     /\ \A b \in InvalidServerBatches :
          UploadFiles(b) =>
            /\ photos' = photos
            /\ activeId' = activeId
            /\ reqs' = reqs
            /\ busy' = busy
            /\ server' = server
            /\ IF Oversize(b, SERVER_MAX_IMAGE_BYTES) = {}
               THEN error' = "Please select an image file (JPG/PNG/WebP/GIF)."
               ELSE \E f \in Oversize(b, SERVER_MAX_IMAGE_BYTES) :
                      error' = "File too large: " \o f.name \o " ("
                               \o formatBytes(f.size) \o "). Max 4.0 GB."]_vars

\* C3's case: the size-limit error of a rejected batch is on show, records
\* are on show, and nothing is being read.
C3_Witness ==
  /\ mode = "local"
  /\ error = "One file is too large (big.png, 4.0 MB). Max 4.0 MB."
  /\ last.op = "add"
  /\ tasks = <<>>
  /\ Len(photos) > 0

\* C4: server mode, an upload answered with a non-success status leaves the
\* sequence as it is, sends no list request, and sets the error to a
\* message holding the status code.
C4_UploadRefusedNoEffect ==
  [][\A r \in reqs :
       (UploadResponse(r) /\ r.status # 0 /\ r.status \notin 200..299) =>
         /\ photos' = photos
         /\ reqs' = reqs \ {r}
         /\ error' = "Upload failed (" \o ToString(r.status) \o "): server error"]_vars

\* C4's case: the refused upload has been handled.
C4_Witness ==
  /\ mode = "server"
  /\ error = "Upload failed (500): server error"
  /\ reqs = {}
  /\ ~busy

\* C5 as written: server mode, a Remove(id) answered with a success or
\* no-content status removes exactly the record id from the sequence, and
\* when id is the selection at that moment the selection becomes null.
C5_DeleteOkRemovesAndClears ==
  [][\A r \in reqs :
       (DeleteResponse(r) /\ r.status \in {200, 204}) =>
         /\ Len(photos') = Cardinality({ i \in DOMAIN photos : photos[i].id # r.id })
         /\ \A i, j \in DOMAIN photos' :
              /\ photos'[i].id # r.id
              /\ i < j => \E a, b \in DOMAIN photos :
                            a < b /\ photos[a] = photos'[i] /\ photos[b] = photos'[j]
         /\ Ids(photos') = Ids(photos) \ {r.id}
         /\ activeId = r.id => activeId' = NoId]_vars

\* C6: server mode, a Remove(id) whose request fails (a non-success status,
\* or no response) changes neither the sequence nor the selection and sets
\* the error; calling deletePhoto removes nothing, and a record leaves the
\* sequence, other than by a list being loaded, only when the server has
\* answered its delete request with a success.
C6_DeleteFailedNoEffect ==
  [][/\ \A r \in reqs :
          (DeleteResponse(r) /\ r.status \notin 200..299) =>
            /\ photos' = photos
            /\ activeId' = activeId
            /\ error' # Null
            /\ error' = IF r.status = 0 THEN "Failed to fetch"
                        ELSE "Delete failed (" \o ToString(r.status) \o ")"
     /\ \A id \in Ids(photos) : DeletePhoto(id) => photos' = photos
     /\ (\E r \in reqs : ListResponse(r))
        \/ \A id \in Ids(photos) \ Ids(photos') :
             \E r \in reqs :
               /\ r.kind = "delete"
               /\ r.id = id
               /\ r.phase = "done"
               /\ r.status \in 200..299]_vars

\* C6's case: a refused delete has been handled and the records are still
\* on show.
C6_Witness ==
  /\ mode = "server"
  /\ error = "Delete failed (500)"
  /\ reqs = {}
  /\ ~busy
  /\ Len(photos) = MaxServerInit

\* C7: local mode, Remove of an identifier that no record has changes
\* neither the sequence nor the error, and a Remove(id) right after a
\* Remove(id) changes nothing: sequence, selection and error stay, and so
\* does the entry when both writes went through.
C7_RemoveIdempotent ==
  [][\A id \in RemoveTargets :
       RemovePhoto(id) =>
         /\ id \notin Ids(photos) => (photos' = photos /\ error' = error)
         /\ (last.op = "remove" /\ last.id = id) =>
              /\ photos' = photos
              /\ activeId' = activeId
              /\ error' = error
              /\ (saveOk /\ saveOk') => storage' = storage]_vars

\* C7's case: the last step was a Remove of an identifier no record had (the
\* one removed by the step before), on a sequence that still has records.
C7_Witness ==
  /\ mode = "local"
  /\ last.op = "remove"
  /\ ~last.hit
  /\ Len(photos) > 0

\* C8 as written: local mode, a sequence that an Add or a Remove left and
\* that was written to the entry without a write failure is the sequence a
\* fresh Initialize from that entry yields.
C8_RoundTrip ==
  (mode = "local" /\ pc = "ready" /\ last.op = "mount" /\ boot.valid
     /\ boot.synced /\ boot.lastOp \in {"read", "remove"})
    => photos = boot.prev

\* C9: local mode, after ClearAll the sequence is empty and the selection
\* null, and a fresh Initialize right after it yields an empty sequence.
C9_ClearAllThenReloadEmpty ==
  /\ (mode = "local" /\ last.op = "clear") => (photos = <<>> /\ activeId = NoId)
  /\ (mode = "local" /\ pc = "ready" /\ last.op = "mount" /\ boot.valid
        /\ boot.lastOp = "clear") => photos = <<>>

\* C9's case: records were on show, ClearAll ran, the page was reloaded and
\* has mounted (its effects run once, so the mount does not empty the
\* sequence by itself).
C9_Witness ==
  /\ mode = "local"
  /\ ~strict
  /\ pc = "ready"
  /\ last.op = "mount"
  /\ boot.valid
  /\ boot.lastOp = "clear"
  /\ boot.origin > 0

\* C10 as written: server mode, whenever no request is in flight every
\* record of the sequence is a record the server holds.
C10_SequenceWithinServer ==
  (mode = "server" /\ reqs = {})
    => \A i \in DOMAIN photos : \E j \in DOMAIN server : server[j] = photos[i]

\* C11 as written: server mode, busy is true in every state in which the
\* request of an uploadFiles or of a deletePhoto call has not resolved yet,
\* also when two such calls overlap.
C11_BusyWhileInFlight ==
  (mode = "server" /\ \E r \in reqs : r.kind \in {"upload", "delete"}) => busy

\* C12: server mode, calling loadPhotos (Reload) leaves the sequence alone;
\* when its fetch fails (a non-success status, or no response) handling the
\* failure leaves the sequence as it is and sets the error; when its fetch
\* succeeds the sequence becomes the fetched list, whatever it held.
C12_ReloadReplacesOrKeeps ==
  [][/\ LoadPhotos => photos' = photos
     /\ \A r \in reqs :
          (ListResponse(r) /\ r.rid # 0 /\ ~r.chained) =>
            IF r.status \in 200..299
            THEN photos' = r.data
            ELSE /\ photos' = photos
                 /\ error' = IF r.status = 0 THEN "Failed to fetch"
                             ELSE "Failed to load (" \o ToString(r.status) \o ")"]_vars

\* C12's case: the list was loaded, nothing was uploaded or deleted, and a
\* Reload that the server refused has been handled with the records still
\* on show.
C12_Witness ==
  /\ mode = "server"
  /\ error = "Failed to load (500)"
  /\ reqs = {}
  /\ Len(photos) = MaxServerInit
  /\ photos = server
  /\ srvNextId = MaxServerInit + 1

\* C13 as written: in both modes the error is one string; an operation that
\* completes successfully leaves it null (here: a local Remove or ClearAll,
\* which complete in one step), and an operation that fails leaves that
\* operation's message, whatever was shown before.
C13_SuccessClearsError ==
  [][/\ \A id \in RemoveTargets : RemovePhoto(id) => error' = Null
     /\ ClearAll => error' = Null
     /\ \A b \in LocalBatches :
          (AddFiles(b) /\ Invalid(b, MAX_IMAGE_BYTES)) =>
            \/ error' = SelectImageMsg
            \/ \E f \in Oversize(b, MAX_IMAGE_BYTES) : error' = TooLargeMsg(f)
     /\ \A r \in reqs :
          /\ (ListResponse(r) /\ ~Ok(r.status)) =>
               error' \in {FetchFailedMsg, LoadFailedMsg(r.status)}
          /\ (UploadResponse(r) /\ ~Ok(r.status)) =>
               error' \in {FetchFailedMsg, UploadFailedMsg(r.status, ErrorBody)}
          /\ (DeleteResponse(r) /\ ~Ok(r.status)) =>
               error' \in {FetchFailedMsg, DeleteFailedMsg(r.status)}]_vars

\* C14: server mode, an Add builds no record locally: calling uploadFiles
\* and handling the upload's response leave the sequence alone, a successful
\* upload is followed by a list request, and when that list arrives with a
\* success the sequence is exactly the list it carries.
C14_UploadThenFullReplace ==
  [][/\ \A b \in ServerBatches : UploadFiles(b) => photos' = photos
     /\ \A r \in reqs :
          /\ UploadResponse(r) =>
               /\ photos' = photos
               /\ r.status \in 200..299 =>
                    \E q \in reqs' : q.kind = "list" /\ q.chained /\ q.phase = "sent"
          /\ (ListResponse(r) /\ r.chained /\ r.status \in 200..299) =>
               photos' = r.data]_vars

\* C14's case: an upload and its list fetch both succeeded and are handled;
\* the record of the uploaded file leads the sequence, which is what the
\* server holds.
C14_Witness ==
  /\ mode = "server"
  /\ reqs = {}
  /\ ~busy
  /\ error = Null
  /\ Len(photos) = MaxServerInit + 1
  /\ photos[1].name = "b.jpg"
  /\ photos = server

\* The uploadFiles and deletePhoto calls that have not returned: their
\* request is pending, or (a successful upload) the list request awaited
\* after it is.
Unresolved == { r \in reqs : r.kind \in {"upload", "delete"} \/ r.chained }

\* C15: server mode, whenever every uploadFiles and deletePhoto call that was
\* started has returned, busy is false; and, every request resolving in the
\* end, busy never stays true forever.
C15_BusyReleased ==
  /\ [](mode = "server" /\ Unresolved = {} => ~busy)
  /\ (busy ~> ~busy)

\* C15's case: every call that set busy has returned, the last of them a
\* delete the server refused, and busy is false.
C15_Witness ==
  /\ mode = "server"
  /\ ~busy
  /\ reqs = {}
  /\ nextRid = MaxRequests + 1
  /\ error = "Delete failed (500)"

\* C16: local mode, when an Add that accepted exactly one file completes, the
\* selection is the identifier of the record made from that file, a record
\* that was not there before and now leads the sequence; when an Add that
\* accepted two or more files completes, the selection is what it was.
C16_ActiveAfterAdd ==
  [][\A i \in DOMAIN tasks :
       AddCompletes(i) =>
         IF Len(tasks[i].files) = 1
         THEN /\ activeId' = photos'[1].id
              /\ activeId' \notin Ids(photos)
              /\ photos'[1].name = tasks[i].files[1].name
              /\ photos'[1].dataUrl.base64 = tasks[i].files[1].data
         ELSE activeId' = activeId]_vars

\* C16's case: a stored record was selected, then two files were added: the
\* two new records lead the sequence and the stored record is still the
\* selection.
C16_Witness ==
  /\ mode = "local"
  /\ last.op = "read"
  /\ tasks = <<>>
  /\ Len(photos) >= 3
  /\ photos[1].id >= FirstFreshId
  /\ photos[2].id >= FirstFreshId
  /\ activeId = photos[3].id

\* C17 as written: local mode, once ClearAll and the save effect it triggers
\* have run, the storage key holds no entry.
C17_ClearAllLeavesNoEntry ==
  (mode = "local" /\ last.op = "clear") => storage = Absent

\* C18 as written: local mode, in every state the selection is null or the
\* identifier of a record of the sequence (the selection is cleared when its
\* record leaves the sequence by a Remove, by ClearAll, or off the tail when
\* an Add cuts the sequence to 30).
C18_ActiveIsNullOrPresent ==
  mode = "local" => (activeId = NoId \/ activeId \in Ids(photos))

\* C19: the startup script never runs the migration before nc has found the
\* database port reachable, never starts the server before the migration
\* has finished successfully (a failed migration ends the script with a
\* failure status and no server), and for as long as the port has not been
\* found reachable it stays in its polling loop: a failed probe is followed
\* by sleep, sleep by the next probe, and neither migration nor server runs.
C19_StartupOrder ==
  /\ [](mode = "script" =>
          /\ (script.pc = "migrate" \/ script.migrateRuns > 0) => script.seenUp
          /\ (script.pc \in {"runserver", "serving"} \/ script.started) =>
               script.migrated
          /\ (script.migrateRuns > 0 /\ ~script.migrated) =>
               /\ script.pc = "exited"
               /\ script.status # 0
               /\ ~script.started
          /\ ~script.seenUp =>
               /\ script.pc \in {"echoWait", "probe", "sleep"}
               /\ script.migrateRuns = 0
               /\ ~script.started)
  /\ [][(ScriptProbe /\ ~script.db) => script'.pc = "sleep"]_vars
  /\ [][ScriptSleep => script'.pc = "probe"]_vars

\* C19's case: the port was unreachable for two probes at least, then
\* reachable; the migration went through and the server is serving.
C19_Witness ==
  /\ mode = "script"
  /\ script.pc = "serving"
  /\ script.polls >= 2
  /\ script.migrated
  /\ script.migrateRuns = 1

\* C20: local mode, overlapping operations.  A read of an Add that is not
\* its last changes neither the sequence, the selection nor the entry (no
\* batch is applied partially); the step that completes an Add puts all the
\* records of its batch, in order, in front of the sequence as it is at that
\* moment, which keeps its order and loses records only off the tail beyond
\* 30 (no update is lost, whatever other Adds, Removes or ClearAll ran
\* during the read); a record enters the sequence only in such a step and
\* only as a new record of the batch, so a record just removed is not
\* brought back.
C20_OverlappingAddsMerge ==
  [][/\ \A i \in DOMAIN tasks :
          /\ (ReadDone(i) /\ ~AddCompletes(i)) =>
               /\ photos' = photos
               /\ activeId' = activeId
               /\ storage' = storage
          /\ AddCompletes(i) =>
               LET fs == tasks[i].files
                   k == Len(fs)
                   m == Min(Len(photos) + k, MAX_STORED_IMAGES)
               IN  /\ Len(photos') = m
                   /\ \A j \in 1..(k - 1) : photos'[j] = tasks[i].next[j]
                   /\ photos'[k].name = fs[k].name
                   /\ photos'[k].id \notin Ids(photos) \cup Ids(tasks[i].next)
                   /\ \A j \in (k + 1)..m : photos'[j] = photos[j - k]
                   /\ Ids(photos') \ Ids(photos)
                        = Ids(tasks[i].next) \cup {photos'[k].id}
     /\ (pc = "ready" /\ pc' = "ready" /\ Ids(photos') \ Ids(photos) # {}) =>
          \E i \in DOMAIN tasks : AddCompletes(i)
     /\ (pc = "ready" /\ pc' = "ready" /\ last.op = "remove") =>
          last.id \notin Ids(photos')]_vars

\* C20's case: two Adds overlapped.  The first read one of its two files,
\* the second read its file and completed, then the first read its other
\* file and completed: its two records lead the sequence, the record of the
\* second Add follows.
C20_Witness ==
  /\ mode = "local"
  /\ tasks = <<>>
  /\ last.op = "read"
  /\ Len(photos) >= 3
  /\ photos[1].id = FirstFreshId
  /\ photos[2].id = FirstFreshId + 2
  /\ photos[3].id = FirstFreshId + 1

\* C21 as written: local mode, from the start of the page to the first user
\* operation the entry is what was stored before the page started: the save
\* effect does not write the initial empty sequence over stored records,
\* whether the mount effects run once or twice.  (Entries of stored records:
\* arrays of boot.origin > 0 records.)
C21_MountKeepsEntry ==
  (mode = "local" /\ ops = 0 /\ boot.origin > 0)
    => storage = Entry("array", Stringify(StoredPhotos(boot.origin)))

\* C22 as written: server mode, when the response of a successful Remove(id)
\* is handled while the selection is a record other than id, the selection
\* stays what it is, also when the user changed it while the request was
\* pending.
C22_DeleteKeepsOtherSelection ==
  [][\A r \in reqs :
       (DeleteResponse(r) /\ r.status \in {200, 204}
          /\ activeId # NoId /\ activeId # r.id) =>
         activeId' = activeId]_vars

=============================================================================
